---- MODULE Spec2Model ----
(***************************************************************************)
(* Model of the notebook 02_data_sources.ipynb: the kernel namespace       *)
(* (r, url, source, data, ax, govt_debt, ind), the remote servers the      *)
(* cells talk to, and one action per code cell (cells 4, 6, 8, 10, 14).    *)
(*                                                                         *)
(* The cells are one-line calls into requests, pandas and                  *)
(* pandas_datareader; the operators below state what those calls do for    *)
(* the library versions the notebook was written against (Python 3.7,     *)
(* pandas 1.x, July 2020).                                                 *)
(*                                                                         *)
(* Text is abstracted at the level of tokens: a line of the CSV body is    *)
(* the pair of its comma-separated fields, a date is the integer YYYYMMDD, *)
(* a float is the integer number of tenths (3.4 is 34).                    *)
(***************************************************************************)
EXTENDS Integers, Sequences, FiniteSets, TLC

VARIABLES
  net,        \* what a request to url meets: a response, or a failure
  body,       \* the document served at url
  wbNet,      \* what a request to the World Bank API meets
  wbResp,     \* the long table the World Bank API answers with
  pc,         \* the next code cell to run
  names,      \* the names bound in the kernel
  r,          \* cell 4: the Response
  source,     \* cell 6: the lines of the document
  printed,    \* cell 6: the lines printed
  data,       \* cell 8: the frame read
  display,    \* cell 8: the rows data.head(2) shows
  sliced,     \* cell 10: the frame data['2006':'2012'] evaluates to
  ax,         \* cells 10 and 14: the chart drawn
  govt_debt,  \* cell 14: the wide frame
  err,        \* per cell: the exception it ended with, "none", or "notrun"
  sent        \* per cell: the HTTP requests it has put on the wire

vars == <<net, body, wbNet, wbResp, pc, names, r, source, printed, data,
          display, sliced, ax, govt_debt, err, sent>>

(***************************************************************************)
(* Bounds of the model.                                                    *)
(***************************************************************************)
MaxRows == 3
NumYears == 2

(***************************************************************************)
(* Program constants.                                                      *)
(***************************************************************************)
SliceStartYear == 2006
SliceEndYear == 2012
WbStart == 2005

(***************************************************************************)
(* Values held by table cells and index keys.                              *)
(***************************************************************************)
NaN == [kind |-> "nan", num |-> 0, str |-> ""]
Float(n) == [kind |-> "float", num |-> n, str |-> ""]
Str(s) == [kind |-> "str", num |-> 0, str |-> s]
Timestamp(d) == [kind |-> "ts", num |-> d, str |-> ""]

(***************************************************************************)
(* The CSV text served at url.                                             *)
(***************************************************************************)
ValidDateTokens == {"2005-12-31", "2006-01-01", "2012-12-31", "2013-01-01"}
DateTokens == ValidDateTokens \cup {"xx"}
NumericTokens == {"3.4"}
ValueTokens == NumericTokens \cup {"", "N/A", "abc"}
HeaderLine == <<"DATE", "VALUE">>
DataLines == DateTokens \X ValueTokens

SeqsUpTo(S, n) == UNION {[1..k -> S] : k \in 0..n}

\* A served CSV document: nothing at all, or the header line followed by
\* up to MaxRows data lines, every line terminated by a newline.
Bodies == {<<>>} \cup {<<HeaderLine>> \o rows : rows \in SeqsUpTo(DataLines, MaxRows)}

\* The document a server sends with a non-2xx status.
ErrorPage == << <<"<html>">>, <<"404 Not Found">>, <<"</html>">> >>

NetOutcomes == {"ok", "http_error", "dns", "refused", "proxy", "timeout"}
TransportFailures == {"dns", "refused", "proxy", "timeout"}

(***************************************************************************)
(* requests.get(url): raises on a transport failure; returns a Response    *)
(* for any HTTP status (raise_for_status is never called).                 *)
(***************************************************************************)
NoResponse == [status |-> 0, content |-> <<>>]

\* A mutant: a transport failure is swallowed and an empty response returned.
RequestsGetSwallow(n, b) ==
  CASE n = "ok" -> [exc |-> "none", resp |-> [status |-> 200, content |-> b]]
    [] n = "http_error" -> [exc |-> "none", resp |-> [status |-> 404, content |-> b]]
    [] OTHER -> [exc |-> "none", resp |-> NoResponse]

RequestsGet(n, b) ==
  CASE n = "ok" -> [exc |-> "none", resp |-> [status |-> 200, content |-> b]]
    [] n = "http_error" -> [exc |-> "none", resp |-> [status |-> 404, content |-> b]]
    [] n = "proxy" -> [exc |-> "ProxyError", resp |-> NoResponse]
    [] n = "timeout" -> [exc |-> "Timeout", resp |-> NoResponse]
    [] OTHER -> [exc |-> "ConnectionError", resp |-> NoResponse]

(***************************************************************************)
(* urllib.request.urlopen(url), which pd.read_csv uses for a url: raises   *)
(* HTTPError on a non-2xx status and URLError on a transport failure.      *)
(***************************************************************************)
UrlOpen(n, b) ==
  CASE n = "ok" -> [exc |-> "none", content |-> b]
    [] n = "http_error" -> [exc |-> "HTTPError", content |-> <<>>]
    [] OTHER -> [exc |-> "URLError", content |-> <<>>]

(***************************************************************************)
(* How many times one call puts its request on the wire.  requests.get     *)
(* opens a Session whose HTTPAdapter has max_retries = 0, and urlopen has  *)
(* no retry at all: whatever the request meets, it was sent once.          *)
(***************************************************************************)
\* A mutant: a request that met a transport failure is sent once more.
RequestsGetAttemptsRetry(n) == IF n \in TransportFailures THEN 2 ELSE 1

RequestsGetAttempts(n) == 1

UrlOpenAttempts(n) == 1

(***************************************************************************)
(* bytes.decode().split("\n"): the lines, then the empty string that       *)
(* follows the last newline (or the empty string alone for empty content). *)
(***************************************************************************)
DecodeSplit(content) == content \o << <<"">> >>

(***************************************************************************)
(* pd.read_csv(url, index_col=0, parse_dates=True), the parsing part.      *)
(***************************************************************************)
\* Tokens read_csv turns into the missing marker (its default na_values).
NaTokens == {"", "N/A"}

\* float(token), in tenths.
ParseFloat(tok) == CASE tok = "3.4" -> 34

\* The calendar date a YYYY-MM-DD token denotes, as YYYYMMDD.
DateOf(tok) ==
  CASE tok = "2005-12-31" -> 20051231
    [] tok = "2006-01-01" -> 20060101
    [] tok = "2012-12-31" -> 20121231
    [] tok = "2013-01-01" -> 20130101

\* The value column becomes float64 when every token is a number or a
\* missing-value token; otherwise it stays a column of Python objects.
ColumnIsNumeric(rows) ==
  \A i \in 1..Len(rows) : rows[i][2] \in NumericTokens \cup NaTokens

\* A mutant: the empty token is read as zero.
ConvertValueEmptyAsZero(tok, numeric) ==
  IF tok = "" THEN Float(0)
  ELSE IF tok \in NaTokens THEN NaN
  ELSE IF numeric THEN Float(ParseFloat(tok))
  ELSE Str(tok)

\* A mutant: a token that is no number is coerced to the missing marker
\* and the column stays numeric.
ConvertValueCoerce(tok, numeric) ==
  IF tok \in NumericTokens THEN Float(ParseFloat(tok)) ELSE NaN

\* One cell of the value column.
ConvertValue(tok, numeric) ==
  IF tok \in NaTokens THEN NaN
  ELSE IF numeric THEN Float(ParseFloat(tok))
  ELSE Str(tok)

\* parse_dates=True converts the index column only if every token of it
\* parses; otherwise the column is returned as the strings it was.
IndexIsDates(rows) ==
  \A i \in 1..Len(rows) : rows[i][1] \in ValidDateTokens

\* A mutant: each token is converted on its own, the ones that parse
\* become dates.
ConvertKeyPerRow(tok, dates) ==
  IF tok \in ValidDateTokens THEN Timestamp(DateOf(tok)) ELSE Str(tok)

\* One key of the index.
ConvertKey(tok, dates) == IF dates THEN Timestamp(DateOf(tok)) ELSE Str(tok)

\* A mutant: rows keyed by date, a later row replacing an earlier one
\* with the same key.
AssembleLastWins(keys, vals) ==
  LET n == Len(keys)
      keep == {i \in 1..n : \A j \in (i+1)..n : keys[j] # keys[i]}
      F[k \in 0..n] ==
        IF k = 0 THEN <<>>
        ELSE IF k \in keep THEN Append(F[k-1], [key |-> keys[k], val |-> vals[k]])
        ELSE F[k-1]
  IN F[n]

\* The frame's rows: one per data line, in the order of the lines.
Assemble(keys, vals) ==
  [i \in 1..Len(keys) |-> [key |-> keys[i], val |-> vals[i]]]

NoFrame == [name |-> "", columns |-> <<>>, index |-> "none", dtype |-> "none", rows |-> <<>>]

\* A mutant: a header with no data line is an error.
EmptyFrameRaises(header) == [exc |-> "EmptyDataError", frame |-> NoFrame]

\* What the parser returns when no data line follows the header: the empty
\* frame, with an object index and an object column (no conversion runs).
EmptyFrame(header) ==
  [exc |-> "none",
   frame |-> [name |-> header[1], columns |-> <<header[2]>>,
              index |-> "object", dtype |-> "object", rows |-> <<>>]]

\* The frame read from a document that has a header line.
ParseLines(content) ==
  LET header == content[1]
      rows == Tail(content)
      numeric == ColumnIsNumeric(rows)
      dates == IndexIsDates(rows)
  IN IF Len(rows) = 0
       THEN EmptyFrame(header)
       ELSE [exc |-> "none",
             frame |-> [name |-> header[1], columns |-> <<header[2]>>,
                        index |-> IF dates THEN "datetime" ELSE "object",
                        dtype |-> IF numeric THEN "float64" ELSE "object",
                        rows |-> Assemble([i \in 1..Len(rows) |-> ConvertKey(rows[i][1], dates)],
                                          [i \in 1..Len(rows) |-> ConvertValue(rows[i][2], numeric)])]]

\* read_csv on a url: fetch, then parse.  A document with no line at all
\* has no columns to parse: EmptyDataError.
ReadCsv(n, b) ==
  LET got == UrlOpen(n, b)
  IN IF got.exc # "none" THEN [exc |-> got.exc, frame |-> NoFrame]
     ELSE IF Len(got.content) = 0 THEN [exc |-> "EmptyDataError", frame |-> NoFrame]
     ELSE ParseLines(got.content)

\* DataFrame.head(2)
Head2(f) == SubSeq(f.rows, 1, IF Len(f.rows) < 2 THEN Len(f.rows) ELSE 2)

(***************************************************************************)
(* Writing a frame back as comma-delimited text.  The notebook has no code *)
(* for it; the format is the one the specification gives: a header row,    *)
(* dates as YYYY-MM-DD, the missing marker as the empty token.  A cell or  *)
(* key that is a string is written as it is.                               *)
(***************************************************************************)
FormatFloat(n) == CASE n = 34 -> "3.4"

FormatDate(d) ==
  CASE d = 20051231 -> "2005-12-31"
    [] d = 20060101 -> "2006-01-01"
    [] d = 20121231 -> "2012-12-31"
    [] d = 20130101 -> "2013-01-01"

FormatKey(k) == IF k.kind = "ts" THEN FormatDate(k.num) ELSE k.str

FormatValue(v) ==
  IF v.kind = "nan" THEN ""
  ELSE IF v.kind = "float" THEN FormatFloat(v.num)
  ELSE v.str

\* The lines of the text: the header, then one line per row in row order.
ToCsv(f) ==
  << <<f.name, f.columns[1]>> >> \o
  [i \in 1..Len(f.rows) |-> <<FormatKey(f.rows[i].key), FormatValue(f.rows[i].val)>>]

(***************************************************************************)
(* data['2006':'2012']: DataFrame.__getitem__ with a slice of strings,     *)
(* resolved against the index by Index.slice_indexer.                      *)
(***************************************************************************)
\* Where a key or a slice bound lies in the order its index compares by.
\* A day d (YYYYMMDD) spans the instants d*10 (midnight) to d*10 + 9 (its
\* last nanosecond); a Timestamp key is the midnight of its day.  A string
\* compares lexicographically: for the strings of the model that is the
\* order of their digits, a year alone before every date of the year, and
\* letters after digits.
KeyOrd(k) ==
  IF k.kind = "ts" THEN k.num * 10
  ELSE IF k.str \in ValidDateTokens THEN DateOf(k.str) * 10
  ELSE 999999999

\* DatetimeIndex._maybe_cast_slice_bound: a year string stands for the
\* interval from the first instant of the year (lower) to its last
\* (upper).  Any other index compares the string itself.
LowerBound(year, kind) ==
  IF kind = "datetime" THEN (year * 10000 + 101) * 10 ELSE year * 100000
UpperBound(year, kind) ==
  IF kind = "datetime" THEN (year * 10000 + 1231) * 10 + 9 ELSE year * 100000

KeysOf(rows) == [i \in 1..Len(rows) |-> rows[i].key]

IsMonotonicIncreasing(ks) ==
  \A i \in 1..(Len(ks) - 1) : KeyOrd(ks[i]) <= KeyOrd(ks[i+1])
IsMonotonicDecreasing(ks) ==
  \A i \in 1..(Len(ks) - 1) : KeyOrd(ks[i]) >= KeyOrd(ks[i+1])
IsStrictlyMonotonicDecreasing(ks) ==
  \A i \in 1..(Len(ks) - 1) : KeyOrd(ks[i]) > KeyOrd(ks[i+1])

\* A mutant: the search takes the right side, keys equal to the bound count
\* as before it.
SearchSortedLeftAsRight(ks, x) == Cardinality({i \in 1..Len(ks) : KeyOrd(ks[i]) <= x})
\* searchsorted(x, side='left') on the index in increasing order: the
\* number of keys before x.
SearchSortedLeft(ks, x) == Cardinality({i \in 1..Len(ks) : KeyOrd(ks[i]) < x})
\* A mutant: keys equal to the day of the bound are left out.
SearchSortedRightExclusive(ks, x) ==
  Cardinality({i \in 1..Len(ks) : KeyOrd(ks[i]) + 9 < x})
\* searchsorted(x, side='right'): the number of keys not after x.
SearchSortedRight(ks, x) == Cardinality({i \in 1..Len(ks) : KeyOrd(ks[i]) <= x})

\* rows[start:stop], positions counted from 0.
ISlice(rows, start, stop) == SubSeq(rows, start + 1, stop)

\* The rows a boolean mask lo <= key <= hi selects, in row order.
MaskSelect(rows, lo, hi) ==
  LET n == Len(rows)
      F[k \in 0..n] ==
        IF k = 0 THEN <<>>
        ELSE IF lo <= KeyOrd(rows[k].key) /\ KeyOrd(rows[k].key) <= hi
          THEN Append(F[k-1], rows[k])
          ELSE F[k-1]
  IN F[n]

\* Index.slice_indexer / DatetimeIndex.slice_indexer for [start:end], each
\* bound a string standing for the instants startLo..startHi, endLo..endHi.
\*  - increasing index: [searchsorted left of the lower bound of start,
\*    searchsorted right of the upper bound of end);
\*  - decreasing index: the same searches on the reversed index (a strictly
\*    decreasing DatetimeIndex of more than one key searches for the upper
\*    bound of start and the lower bound of end instead);
\*  - neither: a DatetimeIndex falls back to the mask lower <= key <= upper,
\*    any other index raises KeyError.
SliceRowsBy(kind, rows, startLo, startHi, endLo, endHi) ==
  LET ks == KeysOf(rows)
      n == Len(rows)
      swap == kind = "datetime" /\ IsStrictlyMonotonicDecreasing(ks) /\ n > 1
      startLabel == IF swap THEN startHi ELSE startLo
      endLabel == IF swap THEN endLo ELSE endHi
  IN IF IsMonotonicIncreasing(ks)
       THEN [exc |-> "none",
             rows |-> ISlice(rows, SearchSortedLeft(ks, startLabel),
                             SearchSortedRight(ks, endLabel))]
     ELSE IF IsMonotonicDecreasing(ks)
       THEN [exc |-> "none",
             rows |-> ISlice(rows, n - SearchSortedRight(ks, startLabel),
                             n - SearchSortedLeft(ks, endLabel))]
     ELSE IF kind = "datetime"
       THEN [exc |-> "none", rows |-> MaskSelect(rows, startLo, endHi)]
       ELSE [exc |-> "KeyError", rows |-> <<>>]

\* The slice [startYear:endYear] of two year strings.
SliceRows(kind, rows, startYear, endYear) ==
  SliceRowsBy(kind, rows, LowerBound(startYear, kind), UpperBound(startYear, kind),
              LowerBound(endYear, kind), UpperBound(endYear, kind))

\* A mutant: the selection is made in place, the frame itself is truncated.
GetItemSliceInPlace(f, startYear, endYear) ==
  LET sel == SliceRows(f.index, f.rows, startYear, endYear)
  IN [exc |-> sel.exc,
      self |-> IF sel.exc = "none" THEN [f EXCEPT !.rows = sel.rows] ELSE f,
      out |-> IF sel.exc = "none" THEN [f EXCEPT !.rows = sel.rows] ELSE NoFrame]

\* frame[start:end]: `self` is the frame after the call, `out` the frame
\* the call returns.
GetItemSlice(f, startYear, endYear) ==
  LET sel == SliceRows(f.index, f.rows, startYear, endYear)
  IN [exc |-> sel.exc,
      self |-> f,
      out |-> IF sel.exc = "none" THEN [f EXCEPT !.rows = sel.rows] ELSE NoFrame]

\* DatetimeIndex._maybe_cast_slice_bound for a day string 'YYYY-MM-DD': the
\* day stands for the interval from its midnight (lower) to its last instant
\* (upper).  Any other index compares the string itself.
DayLowerBound(day, kind) == day * 10
DayUpperBound(day, kind) == IF kind = "datetime" THEN day * 10 + 9 ELSE day * 10

\* frame['YYYY-MM-DD':'YYYY-MM-DD']: the same indexing operation as
\* GetItemSlice, its two bounds day strings.
GetItemSliceDays(f, startDay, endDay) ==
  LET sel == SliceRowsBy(f.index, f.rows,
                         DayLowerBound(startDay, f.index), DayUpperBound(startDay, f.index),
                         DayLowerBound(endDay, f.index), DayUpperBound(endDay, f.index))
  IN [exc |-> sel.exc,
      self |-> f,
      out |-> IF sel.exc = "none" THEN [f EXCEPT !.rows = sel.rows] ELSE NoFrame]

(***************************************************************************)
(* DataFrame.plot(): a line per numeric column.  The index of the frames   *)
(* of this model never has a regular frequency, so a datetime index is     *)
(* plotted by LinePlot._get_xticks, which sorts the frame by its index; an *)
(* object index is plotted in row order against positions.                 *)
(***************************************************************************)
\* sorted with x placed after the elements that do not sort after it
InsertSorted(sorted, x) ==
  LET pos == Cardinality({i \in 1..Len(sorted) : KeyOrd(sorted[i].key) <= KeyOrd(x.key)})
  IN SubSeq(sorted, 1, pos) \o <<x>> \o SubSeq(sorted, pos + 1, Len(sorted))

\* A mutant: the frame is plotted in row order.
SortIndexNot(rows) == rows

\* DataFrame.sort_index()
SortIndex(rows) ==
  LET n == Len(rows)
      F[k \in 0..n] == IF k = 0 THEN <<>> ELSE InsertSorted(F[k-1], rows[k])
  IN F[n]

NoChart == [title |-> "", legend |-> FALSE, lw |-> 0, xlabel |-> "", ylabel |-> "",
            lines |-> <<>>, points |-> <<>>]

\* frame.plot(title=..., legend=...): TypeError("no numeric data to plot")
\* when the frame has no numeric column.
\* A mutant: a frame with no rows is refused like one with no numeric column.
PlotRefuseNoRows(f, title, legend) ==
  IF f.dtype # "float64" \/ f.rows = <<>>
    THEN [exc |-> "TypeError", chart |-> NoChart]
    ELSE [exc |-> "none",
          chart |-> [title |-> title, legend |-> legend, lw |-> 0,
                     xlabel |-> f.name, ylabel |-> "",
                     lines |-> f.columns,
                     points |-> IF f.index = "datetime" THEN SortIndex(f.rows) ELSE f.rows]]

Plot(f, title, legend) ==
  IF f.dtype # "float64"
    THEN [exc |-> "TypeError", chart |-> NoChart]
    ELSE [exc |-> "none",
          chart |-> [title |-> title, legend |-> legend, lw |-> 0,
                     xlabel |-> f.name, ylabel |-> "",
                     lines |-> f.columns,
                     points |-> IF f.index = "datetime" THEN SortIndex(f.rows) ELSE f.rows]]

(***************************************************************************)
(* wb.download(indicator, country=['US', 'AU'], start=2005, end=...)       *)
(*   .stack().unstack(0), then index.droplevel(-1).                        *)
(***************************************************************************)
WbCountries == {"Australia", "United States"}
WbYears == WbStart..(WbStart + NumYears - 1)
WbPairs == WbCountries \X WbYears
WbValues == {143, 621, 630}
Absent == [kind |-> "absent", num |-> 0, str |-> ""]

\* What the API answers for a (country, year): no row, a row whose value
\* is null, or a row with a value.
WbCells == {Absent, NaN} \cup {Float(v) : v \in WbValues}
NoRows == [p \in WbPairs |-> Absent]

\* The order of the country level of the frame's MultiIndex (sorted).
CountryOrd(c) == IF c = "Australia" THEN 1 ELSE 2

\* wb.download: the long frame indexed by (country, year), one row per row
\* of the answer, a null value as NaN.
WbDownload(n, resp) ==
  IF n = "http_error" THEN [exc |-> "RemoteDataError", long |-> {}]
  ELSE IF n # "ok" THEN [exc |-> "ConnectionError", long |-> {}]
  ELSE IF \A p \in WbPairs : resp[p] = Absent THEN [exc |-> "ValueError", long |-> {}]
  ELSE [exc |-> "none",
        long |-> {[country |-> p[1], year |-> p[2], value |-> resp[p]] :
                    p \in {q \in WbPairs : resp[q] # Absent}}]

\* wb.download reads through _BaseReader._get_response, which sends the
\* request, returns on a 200 answer, and otherwise sleeps and sends it again,
\* retry_count more times, before it raises RemoteDataError.  An exception
\* of the transport leaves the loop at once.
WbRetryCount == 3
WbDownloadAttempts(n) == IF n = "http_error" THEN WbRetryCount + 1 ELSE 1

\* DataFrame.stack(): one entry per (row, column) whose value is not NaN.
Stack(long) == {e \in long : e.value # NaN}

\* The elements of a finite set of integers, ascending.
RECURSIVE Ascending(_)
Ascending(S) ==
  IF S = {} THEN <<>>
  ELSE LET m == CHOOSE x \in S : \A y \in S : x <= y
       IN <<m>> \o Ascending(S \ {m})

SortedCountries(S) ==
  LET ord == Ascending({CountryOrd(c) : c \in S})
  IN [i \in 1..Len(ord) |-> CHOOSE c \in S : CountryOrd(c) = ord[i]]

NoWide == [index |-> <<>>, columns |-> <<>>, cells |-> <<>>]

\* A mutant: a pair with no entry is filled with zero.
UnstackFillZero(entries) ==
  LET years == {e.year : e \in entries}
      countries == {e.country : e \in entries}
  IN [index |-> Ascending(years),
      columns |-> SortedCountries(countries),
      cells |-> [p \in years \X countries |->
                   IF \E e \in entries : e.year = p[1] /\ e.country = p[2]
                     THEN (CHOOSE e \in entries : e.year = p[1] /\ e.country = p[2]).value
                     ELSE Float(0)]]

\* Series.unstack(0) and index.droplevel(-1): the country level becomes
\* the columns, the years that are left the index; a (year, country) with
\* no entry holds NaN.
Unstack(entries) ==
  LET years == {e.year : e \in entries}
      countries == {e.country : e \in entries}
  IN [index |-> Ascending(years),
      columns |-> SortedCountries(countries),
      cells |-> [p \in years \X countries |->
                   IF \E e \in entries : e.year = p[1] /\ e.country = p[2]
                     THEN (CHOOSE e \in entries : e.year = p[1] /\ e.country = p[2]).value
                     ELSE NaN]]

\* govt_debt.plot(lw=2)
PlotWide(w, lw) ==
  IF Len(w.columns) = 0
    THEN [exc |-> "TypeError", chart |-> NoChart]
    ELSE [exc |-> "none",
          chart |-> [title |-> "", legend |-> TRUE, lw |-> lw,
                     xlabel |-> "year", ylabel |-> "",
                     lines |-> w.columns,
                     points |-> [i \in 1..Len(w.index) |->
                                   [key |-> w.index[i],
                                    val |-> [j \in 1..Len(w.columns) |->
                                               w.cells[<<w.index[i], w.columns[j]>>]]]]]]

(***************************************************************************)
(* The notebook: the code cells, run once each, top to bottom.  A cell     *)
(* that raises stops there; the names it bound before the exception stay   *)
(* bound, and the next cell can still be run.                              *)
(***************************************************************************)
Cells == {4, 6, 8, 10, 14}

TypeOK ==
  /\ net \in NetOutcomes
  /\ wbNet \in NetOutcomes
  /\ pc \in Cells \cup {0}
  /\ names \subseteq {"plt", "pd", "requests", "r", "url", "source", "data", "ax",
                      "wb", "govt_debt", "ind"}
  /\ DOMAIN err = Cells
  /\ sent \in [Cells -> 0..(WbRetryCount + 1)]

InitKernel ==
  /\ pc = 4
  /\ names = {}
  /\ r = NoResponse
  /\ source = <<>>
  /\ printed = <<>>
  /\ data = NoFrame
  /\ display = <<>>
  /\ sliced = NoFrame
  /\ ax = NoChart
  /\ govt_debt = NoWide
  /\ err = [c \in Cells |-> "notrun"]
  /\ sent = [c \in Cells |-> 0]

\* Every document and every network outcome at url; the World Bank API
\* out of reach.
Init ==
  /\ net \in NetOutcomes
  /\ body \in (IF net = "ok" THEN Bodies
               ELSE IF net = "http_error" THEN {ErrorPage} ELSE {<<>>})
  /\ wbNet = "refused"
  /\ wbResp = NoRows
  /\ InitKernel

\* The document the notebook shows url to serve, cut to two data lines.
SampleBody == <<HeaderLine, <<"2006-01-01", "3.4">>, <<"2012-12-31", "3.4">>>>

\* Every answer of the World Bank API; every network outcome at url, with
\* the sample document when the request gets through.
InitWB ==
  /\ net \in NetOutcomes
  /\ body = (IF net = "ok" THEN SampleBody
             ELSE IF net = "http_error" THEN ErrorPage ELSE <<>>)
  /\ wbNet \in NetOutcomes
  /\ wbResp \in (IF wbNet = "ok" THEN [WbPairs -> WbCells] ELSE {NoRows})
  /\ InitKernel

\* import ...; r = requests.get(url)
Cell4 ==
  /\ pc = 4
  /\ LET got == RequestsGet(net, body)
     IN /\ names' = names \cup {"plt", "pd", "requests"}
                          \cup (IF got.exc = "none" THEN {"r"} ELSE {})
        /\ r' = got.resp
        /\ err' = [err EXCEPT ![4] = got.exc]
  /\ sent' = [sent EXCEPT ![4] = @ + RequestsGetAttempts(net)]
  /\ pc' = 6
  /\ UNCHANGED <<net, body, wbNet, wbResp, source, printed, data, display,
                 sliced, ax, govt_debt>>

\* url = ...; source = requests.get(url).content.decode().split("\n");
\* print(source[0]); print(source[1]); print(source[2])
Cell6 ==
  /\ pc = 6
  /\ LET got == RequestsGet(net, body)
         lines == DecodeSplit(got.resp.content)
     IN /\ names' = names \cup {"url"} \cup (IF got.exc = "none" THEN {"source"} ELSE {})
        /\ source' = IF got.exc = "none" THEN lines ELSE source
        /\ printed' = IF got.exc = "none"
                        THEN SubSeq(lines, 1, IF Len(lines) < 3 THEN Len(lines) ELSE 3)
                        ELSE printed
        /\ err' = [err EXCEPT ![6] = IF got.exc # "none" THEN got.exc
                                     ELSE IF Len(lines) < 3 THEN "IndexError"
                                     ELSE "none"]
  /\ sent' = [sent EXCEPT ![6] = @ + RequestsGetAttempts(net)]
  /\ pc' = 8
  /\ UNCHANGED <<net, body, wbNet, wbResp, r, data, display, sliced, ax, govt_debt>>

\* data = pd.read_csv(url, index_col=0, parse_dates=True); data.head(2)
Cell8 ==
  /\ pc = 8
  /\ LET got == ReadCsv(net, body)
     IN /\ names' = names \cup (IF got.exc = "none" THEN {"data"} ELSE {})
        /\ data' = IF got.exc = "none" THEN got.frame ELSE data
        /\ display' = IF got.exc = "none" THEN Head2(got.frame) ELSE display
        /\ err' = [err EXCEPT ![8] = got.exc]
  /\ sent' = [sent EXCEPT ![8] = @ + UrlOpenAttempts(net)]
  /\ pc' = 10
  /\ UNCHANGED <<net, body, wbNet, wbResp, r, source, printed, sliced, ax, govt_debt>>

\* ax = data['2006':'2012'].plot(title=..., legend=False);
\* ax.set_xlabel('year'); ax.set_ylabel('%'); plt.show()
Cell10 ==
  /\ pc = 10
  /\ LET bound == "data" \in names
         got == GetItemSlice(data, SliceStartYear, SliceEndYear)
         drawn == Plot(got.out, "US Unemployment Rate", FALSE)
         exc == IF ~bound THEN "NameError"
                ELSE IF got.exc # "none" THEN got.exc
                ELSE drawn.exc
     IN /\ data' = IF bound THEN got.self ELSE data
        /\ sliced' = IF bound /\ got.exc = "none" THEN got.out ELSE sliced
        /\ ax' = IF exc = "none"
                   THEN [drawn.chart EXCEPT !.xlabel = "year", !.ylabel = "%"]
                   ELSE ax
        /\ names' = names \cup (IF exc = "none" THEN {"ax"} ELSE {})
        /\ err' = [err EXCEPT ![10] = exc]
  /\ pc' = 14
  /\ UNCHANGED <<net, body, wbNet, wbResp, r, source, printed, display, govt_debt, sent>>

\* govt_debt = wb.download(...).stack().unstack(0); ind = ...droplevel(-1);
\* govt_debt.index = ind; ax = govt_debt.plot(lw=2); ax.set_xlabel('year');
\* plt.title(...); plt.show()
Cell14 ==
  /\ pc = 14
  /\ LET got == WbDownload(wbNet, wbResp)
         wide == Unstack(Stack(got.long))
         drawn == PlotWide(wide, 2)
         exc == IF got.exc # "none" THEN got.exc ELSE drawn.exc
     IN /\ govt_debt' = IF got.exc = "none" THEN wide ELSE govt_debt
        /\ ax' = IF exc = "none"
                   THEN [drawn.chart EXCEPT !.title = "Government Debt to GDP (%)"]
                   ELSE ax
        /\ names' = names \cup {"wb"}
                          \cup (IF got.exc = "none" THEN {"govt_debt", "ind"} ELSE {})
                          \cup (IF exc = "none" THEN {"ax"} ELSE {})
        /\ err' = [err EXCEPT ![14] = exc]
  /\ sent' = [sent EXCEPT ![14] = @ + WbDownloadAttempts(wbNet)]
  /\ pc' = 0
  /\ UNCHANGED <<net, body, wbNet, wbResp, r, source, printed, data, display, sliced>>

Next == Cell4 \/ Cell6 \/ Cell8 \/ Cell10 \/ Cell14

Spec == Init /\ [][Next]_vars

SpecWB == InitWB /\ [][Next]_vars

(***************************************************************************)
(* The claims.                                                             *)
(***************************************************************************)
Ran(c) == err[c] # "notrun"
HasHeader == net = "ok" /\ Len(body) >= 1
InputRows == IF Len(body) >= 1 THEN Tail(body) ELSE <<>>
NumInputRows == Len(InputRows)

\* The error kinds of the specification, as the exceptions of the libraries.
IsNetworkError(e) == e \in {"ConnectionError", "ProxyError", "Timeout", "URLError", "HTTPError"}
IsParseError(e) == e \in {"ParserError", "ValueError"}
IsEmptyResponseError(e) == e = "EmptyDataError"

\* A valid input: every date parses, every value is a number or empty.
ValidInput ==
  /\ HasHeader
  /\ \A i \in 1..NumInputRows :
       /\ InputRows[i][1] \in ValidDateTokens
       /\ InputRows[i][2] \in NumericTokens \cup {""}

ExpectedValue(tok) == IF tok \in NumericTokens THEN Float(ParseFloat(tok)) ELSE NaN
ExpectedRow(line) == [key |-> Timestamp(DateOf(line[1])), val |-> ExpectedValue(line[2])]
IsLastWith(i) == \A j \in (i+1)..NumInputRows : InputRows[j][1] # InputRows[i][1]

\* C1 as stated: a valid input gives one entry per distinct date, holding
\* the value of the last row that carries the date (last-write-wins).
C1_LastWriteWins ==
  (Ran(8) /\ ValidInput) =>
     /\ "data" \in names
     /\ Len(data.rows) = Cardinality({InputRows[i][1] : i \in 1..NumInputRows})
     /\ \A j \in 1..Len(data.rows) :
          \E i \in 1..NumInputRows : IsLastWith(i) /\ data.rows[j] = ExpectedRow(InputRows[i])

\* C1 amended: a valid input with N data rows gives a table of exactly N
\* entries, whether or not dates repeat: entry i holds the date and the
\* value of data row i, so rows with a repeated date are all kept and none
\* is overwritten.
C1_OneEntryPerRow ==
  (Ran(8) /\ ValidInput) =>
     /\ "data" \in names
     /\ Len(data.rows) = NumInputRows
     /\ \A i \in 1..NumInputRows : data.rows[i] = ExpectedRow(InputRows[i])

\* C1 witness: a valid input was read in which two rows carry the same
\* date with different values.
C1_Witness ==
  /\ Ran(8) /\ ValidInput /\ err[8] = "none"
  /\ \E i, j \in 1..NumInputRows :
       /\ i < j
       /\ InputRows[i][1] = InputRows[j][1]
       /\ InputRows[i][2] # InputRows[j][2]

IsDateFrame(f) == f.index = "datetime"
KeysUnique(rows) ==
  \A i, j \in 1..Len(rows) : i # j => rows[i].key # rows[j].key
StrictlyAscending(rows) ==
  \A i \in 1..(Len(rows) - 1) : rows[i].key.num < rows[i+1].key.num
NonDecreasing(rows) ==
  \A i \in 1..(Len(rows) - 1) : rows[i].key.num <= rows[i+1].key.num
CountOf(rows, x) == Cardinality({i \in 1..Len(rows) : rows[i] = x})
SameRows(a, b) ==
  /\ Len(a) = Len(b)
  /\ \A i \in 1..Len(a) : CountOf(a, a[i]) = CountOf(b, a[i])

\* C2 as stated: in every date-keyed table the parser produces no date key
\* occurs twice, and plotting visits the keys in strictly ascending order.
C2_UniqueAscending ==
  ("data" \in names /\ IsDateFrame(data)) =>
     /\ KeysUnique(data.rows)
     /\ (pc \in {14, 0} /\ err[10] = "none") => StrictlyAscending(ax.points)

\* C2 amended: a date-keyed table keeps one entry per input row, so a date
\* key can occur more than once; plotting the selection visits exactly the
\* selected entries, in non-decreasing date order, for any order of the
\* input rows.
C2_PlotNonDecreasing ==
  (pc \in {14, 0} /\ err[10] = "none" /\ IsDateFrame(sliced)) =>
     /\ NonDecreasing(ax.points)
     /\ SameRows(ax.points, sliced.rows)

\* C2 witness: a selection whose rows are not in date order, and which
\* holds a date twice, was plotted.
C2_Witness ==
  /\ pc = 14 /\ err[10] = "none" /\ IsDateFrame(sliced)
  /\ ~NonDecreasing(sliced.rows)
  /\ ~KeysUnique(sliced.rows)

\* C3 as stated: a header row with zero data rows ends in
\* EmptyResponseError and no table.
C3_HeaderOnlyIsError ==
  (Ran(8) /\ HasHeader /\ NumInputRows = 0) =>
     /\ IsEmptyResponseError(err[8])
     /\ "data" \notin names

\* C3 amended: a header row with zero data rows parses without error to an
\* empty table (zero entries, the header's value field); the empty-input
\* error is raised only for a document with no header row either.
C3_HeaderOnlyIsEmptyTable ==
  (Ran(8) /\ net = "ok") =>
     /\ (Len(body) = 1 =>
           /\ err[8] = "none"
           /\ "data" \in names
           /\ data.rows = <<>>
           /\ data.columns = <<"VALUE">>)
     /\ (IsEmptyResponseError(err[8]) <=> Len(body) = 0)

\* C3 witness: a header-only document was read.
C3_Witness ==
  /\ Ran(8) /\ HasHeader /\ NumInputRows = 0
  /\ err[8] = "none" /\ "data" \in names

\* C4 as stated: a non-empty token that is no number, in a value column,
\* ends the parse in ParseError; no table is produced and nothing is
\* stored in place of the token.
C4_NonNumericIsParseError ==
  (Ran(8) /\ HasHeader
     /\ \E i \in 1..NumInputRows : InputRows[i][2] \notin NumericTokens \cup {""}) =>
     /\ IsParseError(err[8])
     /\ "data" \notin names

\* C4 amended: a non-empty token that is no number raises no error and a
\* table is produced.  The token N/A (one of the parser's missing-value
\* tokens) is stored as the missing marker.  Any other such token is
\* stored as the raw string, and the column is then not numeric: every
\* number of the column is stored as its raw string too.  Zero is never
\* stored in place of such a token.
C4_NonNumericIsStored ==
  (Ran(8) /\ HasHeader
     /\ \E i \in 1..NumInputRows : InputRows[i][2] \notin NumericTokens \cup {""}) =>
     /\ err[8] = "none"
     /\ "data" \in names
     /\ Len(data.rows) = NumInputRows
     /\ \A i \in 1..NumInputRows :
          LET tok == InputRows[i][2]
              raw == \E j \in 1..NumInputRows : InputRows[j][2] \notin NumericTokens \cup NaTokens
          IN /\ tok = "N/A" => data.rows[i].val = NaN
             /\ tok \notin NumericTokens \cup NaTokens => data.rows[i].val = Str(tok)
             /\ (tok \in NumericTokens /\ raw) => data.rows[i].val = Str(tok)
             /\ (tok \in NumericTokens /\ ~raw) => data.rows[i].val = Float(ParseFloat(tok))
             /\ tok \notin NumericTokens => data.rows[i].val # Float(0)

\* C4 witness: a document with a number, an N/A and another non-numeric
\* token in its value column was read.
C4_Witness ==
  /\ Ran(8) /\ HasHeader /\ err[8] = "none"
  /\ \E i, j, k \in 1..NumInputRows :
       /\ InputRows[i][2] = "N/A" /\ data.rows[i].val = NaN
       /\ InputRows[j][2] = "abc" /\ data.rows[j].val = Str("abc")
       /\ InputRows[k][2] = "3.4" /\ data.rows[k].val = Str("3.4")

\* C5 as stated: a date column value that does not parse as a date ends
\* the parse in ParseError; no table is produced whose key for that row
\* is the raw string.
C5_BadDateIsParseError ==
  (Ran(8) /\ HasHeader
     /\ \E i \in 1..NumInputRows : InputRows[i][1] \notin ValidDateTokens) =>
     /\ IsParseError(err[8])
     /\ "data" \notin names

\* C5 amended: a date column value that does not parse as a date raises
\* no error (the notebook configures no mode for it): the table is
\* produced with an index that is not converted, the key of that row and
\* of every other row being the raw string of its date column.
C5_BadDateKeepsRawKeys ==
  (Ran(8) /\ HasHeader
     /\ \E i \in 1..NumInputRows : InputRows[i][1] \notin ValidDateTokens) =>
     /\ err[8] = "none"
     /\ "data" \in names
     /\ data.index = "object"
     /\ Len(data.rows) = NumInputRows
     /\ \A i \in 1..NumInputRows : data.rows[i].key = Str(InputRows[i][1])

\* C5 witness: a document with a date that parses and one that does not
\* was read.
C5_Witness ==
  /\ Ran(8) /\ HasHeader /\ err[8] = "none"
  /\ \E i, j \in 1..NumInputRows :
       /\ InputRows[i][1] = "xx" /\ data.rows[i].key = Str("xx")
       /\ InputRows[j][1] = "2006-01-01" /\ data.rows[j].key = Str("2006-01-01")

\* C6 as stated: when the fetch fails (transport failure or non-2xx
\* status) every fetch that ran ended in NetworkError, the body was
\* neither decoded nor parsed, and no table was produced.
C6_FetchFailureIsNetworkError ==
  net # "ok" =>
     /\ \A c \in {4, 6, 8} : Ran(c) => IsNetworkError(err[c])
     /\ "source" \notin names
     /\ "data" \notin names

\* C6, as far as the code goes: a transport failure (DNS failure,
\* connection refused, proxy misconfiguration, timeout) surfaces from every
\* fetch as a network error, the body is neither decoded nor parsed and no
\* table is produced.  A non-2xx status surfaces as a network error only
\* from read_csv, which produces no table; requests.get returns such a
\* response without an error (the status is never checked), and cell 6
\* decodes and splits its body.
C6_TransportFailureIsNetworkError ==
  /\ net \in TransportFailures =>
       /\ \A c \in {4, 6, 8} : Ran(c) => IsNetworkError(err[c])
       /\ {"r", "source", "data"} \cap names = {}
       /\ source = <<>> /\ data = NoFrame
  /\ net = "http_error" =>
       /\ Ran(4) => (err[4] = "none" /\ "r" \in names /\ r.status = 404)
       /\ Ran(6) => (~IsNetworkError(err[6]) /\ "source" \in names
                      /\ source = DecodeSplit(body))
       /\ Ran(8) => (IsNetworkError(err[8]) /\ "data" \notin names /\ data = NoFrame)

\* C6, transport failures: with the connection refused, cells 4, 6 and 8 have run, each
\* ended in a network error, and no table is bound.
C6_Witness ==
  /\ net = "refused" /\ pc = 10
  /\ err[4] = "ConnectionError" /\ err[6] = "ConnectionError" /\ err[8] = "URLError"
  /\ "data" \notin names

InRange(row) == 20060101 <= row.key.num /\ row.key.num <= 20121231

\* C7 as stated: the selection of the inclusive range from a date-keyed
\* table is exactly the entries whose date lies in the range, in ascending
\* date order.
C7_SliceInclusive ==
  (pc \in {14, 0} /\ "data" \in names /\ IsDateFrame(data)) =>
     /\ err[10] \notin {"KeyError", "NameError"}
     /\ sliced.rows = SelectSeq(data.rows, InRange)
     /\ NonDecreasing(sliced.rows)

\* C7 amended: from a date-keyed table whose keys are in non-decreasing
\* order, the selection of the inclusive range is exactly the entries
\* whose date lies in the range (bounds included), in that order.
C7_SliceInclusiveOfSorted ==
  (pc \in {14, 0} /\ "data" \in names /\ IsDateFrame(data) /\ NonDecreasing(data.rows)) =>
     /\ err[10] \notin {"KeyError", "NameError"}
     /\ sliced.rows = SelectSeq(data.rows, InRange)
     /\ NonDecreasing(sliced.rows)

\* C7 witness: a selection from a sorted table with an entry before the
\* range, one on its first day and one on its last day.
C7_Witness ==
  /\ pc = 14 /\ "data" \in names /\ IsDateFrame(data)
  /\ Len(data.rows) = 3
  /\ data.rows[1].key.num = 20051231
  /\ data.rows[2].key.num = 20060101
  /\ data.rows[3].key.num = 20121231
  /\ Len(sliced.rows) = 2

LongPairs == {p \in WbPairs : wbResp[p] # Absent}
ValuedPairs == {p \in WbPairs : wbResp[p] \notin {Absent, NaN}}
SeqToSet(q) == {q[i] : i \in 1..Len(q)}
IsOnePer(q, S) == Len(q) = Cardinality(S) /\ SeqToSet(q) = S
Pivoted == pc = 0 /\ "govt_debt" \in names

\* C8 as stated: the pivot of the long response has one row per distinct
\* date and one field per distinct region of the response; a cell holds
\* the value of the long row for its (date, region), and the missing
\* marker when there is no such row.
C8_PivotComplete ==
  Pivoted =>
     /\ IsOnePer(govt_debt.index, {p[2] : p \in LongPairs})
     /\ IsOnePer(govt_debt.columns, {p[1] : p \in LongPairs})
     /\ \A y \in SeqToSet(govt_debt.index), c \in SeqToSet(govt_debt.columns) :
          govt_debt.cells[<<y, c>>] = IF <<c, y>> \in LongPairs THEN wbResp[<<c, y>>] ELSE NaN

\* C8 amended: the pivot of the long response has one row per distinct
\* date that has a value for some region and one field per distinct region
\* that has a value for some date (a long row whose value is missing
\* counts as no value); a cell holds the value of the long row for its
\* (date, region), and the missing marker, not zero and not another
\* region's value, when there is no such row or its value is missing.
C8_PivotOfValues ==
  Pivoted =>
     /\ IsOnePer(govt_debt.index, {p[2] : p \in ValuedPairs})
     /\ IsOnePer(govt_debt.columns, {p[1] : p \in ValuedPairs})
     /\ \A y \in SeqToSet(govt_debt.index), c \in SeqToSet(govt_debt.columns) :
          govt_debt.cells[<<y, c>>] = IF <<c, y>> \in ValuedPairs THEN wbResp[<<c, y>>] ELSE NaN

\* C8 witness: the response {(US, 2005, 62.1), (AU, 2005, 14.3),
\* (US, 2006, 63.0)} was pivoted to 2005 -> {US 62.1, AU 14.3} and
\* 2006 -> {US 63.0, AU missing}.
C8_Witness ==
  /\ Pivoted
  /\ wbResp[<<"United States", 2005>>] = Float(621)
  /\ wbResp[<<"Australia", 2005>>] = Float(143)
  /\ wbResp[<<"United States", 2006>>] = Float(630)
  /\ wbResp[<<"Australia", 2006>>] = Absent
  /\ govt_debt.index = <<2005, 2006>>
  /\ govt_debt.cells[<<2005, "United States">>] = Float(621)
  /\ govt_debt.cells[<<2005, "Australia">>] = Float(143)
  /\ govt_debt.cells[<<2006, "United States">>] = Float(630)
  /\ govt_debt.cells[<<2006, "Australia">>] = NaN

\* C9: an empty token in the value column is stored as the missing marker,
\* which is not the number zero, and the parse succeeds: the table is
\* produced with an entry for that row.
C9_EmptyTokenIsMissing ==
  (Ran(8) /\ HasHeader) =>
     /\ err[8] = "none"
     /\ Len(data.rows) = NumInputRows
     /\ \A i \in 1..NumInputRows :
          InputRows[i][2] = "" =>
             /\ data.rows[i].val = NaN
             /\ data.rows[i].val # Float(0)
             /\ data.rows[i].val.kind # "float"

\* C9 witness: a document with an empty value token and a number was
\* read; the number is stored as a number, the empty token as missing.
C9_Witness ==
  /\ Ran(8) /\ HasHeader /\ err[8] = "none"
  /\ \E i, j \in 1..NumInputRows :
       /\ InputRows[i][2] = "" /\ data.rows[i].val = NaN
       /\ InputRows[j][2] = "3.4" /\ data.rows[j].val = Float(34)

\* C10: slicing the table by the date range and presenting the slice
\* (cell 10) leaves the table as it was: same keys, same fields, same
\* values.
C10_InputUnchanged == [][pc = 10 => data' = data]_vars

\* C10 witness: cell 10 has selected some but not all entries of the
\* table and drawn them; the table still holds every row of the input and
\* the selection is another, shorter table.
C10_Witness ==
  /\ pc = 14 /\ err[10] = "none" /\ "data" \in names
  /\ Len(data.rows) = NumInputRows
  /\ Len(sliced.rows) > 0
  /\ Len(sliced.rows) < Len(data.rows)
  /\ sliced # data

(***************************************************************************)
(* C11  Slicing a table by [its least date, its greatest date].            *)
(***************************************************************************)
MinDay(rows) == CHOOSE d \in {rows[i].key.num : i \in 1..Len(rows)} :
                  \A i \in 1..Len(rows) : d <= rows[i].key.num
MaxDay(rows) == CHOOSE d \in {rows[i].key.num : i \in 1..Len(rows)} :
                  \A i \in 1..Len(rows) : d >= rows[i].key.num
\* data[least date : greatest date] of the table cell 8 read
SliceByOwnRange == GetItemSliceDays(data, MinDay(data.rows), MaxDay(data.rows))
IsNonEmptyDateTable ==
  Ran(8) /\ "data" \in names /\ IsDateFrame(data) /\ data.rows # <<>>

\* C11 (as claimed): for every non-empty table T, the slice of T by the
\* inclusive range [least date key of T, greatest date key of T] is T itself:
\* the same keys in the same order with the same values.
C11_SliceByRangeIsIdentity ==
  IsNonEmptyDateTable =>
    /\ SliceByOwnRange.exc = "none"
    /\ SliceByOwnRange.out = data

\* C11 (amended): for every non-empty table T whose date keys are in
\* non-decreasing order, the slice of T by [least date key of T, greatest
\* date key of T] is T itself.
C11_SliceByRangeOfSorted ==
  (IsNonEmptyDateTable /\ NonDecreasing(data.rows)) =>
    /\ SliceByOwnRange.exc = "none"
    /\ SliceByOwnRange.out = data

\* a sorted table of three rows, two of them on its first day and one of them
\* missing its value, whose slice by its own range has all three
C11_Witness ==
  /\ IsNonEmptyDateTable
  /\ NonDecreasing(data.rows)
  /\ Len(data.rows) = 3
  /\ data.rows[1].key = data.rows[2].key
  /\ data.rows[3].key # data.rows[1].key
  /\ \E i \in 1..3 : data.rows[i].val = NaN
  /\ Len(SliceByOwnRange.out.rows) = 3


(***************************************************************************)
(* C12  Writing a parsed table as text and parsing the text again.         *)
(***************************************************************************)
\* the table read back from the text written from the table cell 8 read
RoundTrip == ParseLines(ToCsv(data))

SelectionMade ==
  /\ Ran(10) /\ "data" \in names
  /\ GetItemSlice(data, SliceStartYear, SliceEndYear).exc = "none"
HasNumericColumn(f) == f.columns # <<>> /\ f.dtype = "float64"
ChartRendered == "ax" \in names

\* C13 (as claimed): whenever the date range selects zero rows, or the
\* selection has zero columns to draw, plotting ends in an error and no chart
\* is rendered.
C13_EmptySelectionIsError ==
  (SelectionMade /\ (sliced.rows = <<>> \/ ~HasNumericColumn(sliced))) =>
    /\ err[10] \notin {"none", "notrun"}
    /\ ~ChartRendered

\* C13 (amended): plotting ends in an error (TypeError, no numeric data to
\* plot) and renders no chart exactly when the selection has no numeric
\* column; a date range that selects zero rows of a numeric column ends in no
\* error and renders a chart whose line has no points.
C13_NoNumericColumnIsError ==
  SelectionMade =>
    /\ ~HasNumericColumn(sliced) <=> err[10] = "TypeError"
    /\ err[10] = "TypeError" => ~ChartRendered
    /\ (HasNumericColumn(sliced) /\ sliced.rows = <<>>) =>
         /\ err[10] = "none"
         /\ ChartRendered
         /\ ax.lines = sliced.columns
         /\ ax.points = <<>>

\* a table of dated numbers none of which lies in 2006..2012: the selection
\* is empty and the chart is drawn, titled and without points
C13_Witness ==
  /\ SelectionMade
  /\ data.rows # <<>>
  /\ \E i \in 1..Len(data.rows) : data.rows[i].val = Float(34)
  /\ HasNumericColumn(sliced)
  /\ sliced.rows = <<>>
  /\ err[10] = "none"
  /\ ChartRendered
  /\ ax.title = "US Unemployment Rate"
  /\ ax.points = <<>>


(***************************************************************************)
(* C14  One request attempt per fetch.                                     *)
(***************************************************************************)
\* the cells that fetch the document at url
UrlFetchCells == {4, 6, 8}

====
